---- MODULE Spec2Model ----
(***************************************************************************)
(* A model of src/main.rs: main and crawl_and_extract (the breadth-first   *)
(* crawl loop with its queue, visited set and CSV writer) and              *)
(* extract_products (the per-page product extraction).                     *)
(*                                                                         *)
(* Strings are sequences of one-character strings, URLs in string form are *)
(* sequences of tokens <<scheme, host, seg1, ..., segN>>, and a parsed Url *)
(* is a record [scheme, host, path].                                       *)
(***************************************************************************)
EXTENDS Integers, Sequences, FiniteSets, TLC

\* ------------------------------------------------------------------ bounds
\* The largest max_pages given on the command line.
MaxPagesArg == 3

\* The default of max_pages when args[2] is absent or does not parse.
DefaultMaxPages == 20

\* ----------------------------------------------------------------- options
None == [some |-> FALSE]
Some(x) == [some |-> TRUE, v |-> x]

\* ------------------------------------------------------------ text helpers
IsSpace(c) == c \in {" ", "\t", "\n"}

RECURSIVE TrimStart(_)
TrimStart(s) ==
    IF s = <<>> THEN <<>>
    ELSE IF IsSpace(Head(s)) THEN TrimStart(Tail(s)) ELSE s

RECURSIVE TrimEnd(_)
TrimEnd(s) ==
    IF s = <<>> THEN <<>>
    ELSE IF IsSpace(s[Len(s)]) THEN TrimEnd(SubSeq(s, 1, Len(s) - 1)) ELSE s

\* str::trim: leading and trailing whitespace removed.
Trim(s) == TrimEnd(TrimStart(s))

Digits == <<"0", "1", "2", "3", "4", "5", "6", "7", "8", "9">>
IsDigit(c) == \E i \in 1..10 : Digits[i] = c
DigitVal(c) == (CHOOSE i \in 1..10 : Digits[i] = c) - 1

RECURSIVE DecimalValue(_)
DecimalValue(s) ==
    IF s = <<>> THEN 0
    ELSE 10 * DecimalValue(SubSeq(s, 1, Len(s) - 1)) + DigitVal(s[Len(s)])

\* str::parse::<usize>: a non-empty run of decimal digits.
ParseUsize(s) ==
    IF s # <<>> /\ \A i \in 1..Len(s) : IsDigit(s[i])
    THEN Some(DecimalValue(s)) ELSE None

\* --------------------------------------------------------------------- Url
Schemes == {"https", "http", "mailto"}
IpHosts == {"127.0.0.1"}

RECURSIVE NormPath(_, _)
\* Dot-segment removal: ".." pops a segment (and is dropped at the root).
NormPath(done, rest) ==
    IF rest = <<>> THEN done
    ELSE IF Head(rest) = ".."
         THEN NormPath(IF done = <<>> THEN <<>> ELSE SubSeq(done, 1, Len(done) - 1),
                       Tail(rest))
         ELSE NormPath(Append(done, Head(rest)), Tail(rest))

\* Url::parse of a string: an absolute URL needs a scheme.
UrlParse(s) ==
    IF Len(s) >= 2 /\ s[1] \in Schemes
    THEN Some([scheme |-> s[1], host |-> s[2],
               path |-> IF s[1] = "mailto" THEN SubSeq(s, 3, Len(s))
                        ELSE NormPath(<<>>, SubSeq(s, 3, Len(s)))])
    ELSE None

\* Url::as_str: the serialization of a parsed Url.
AsStr(u) == <<u.scheme, u.host>> \o u.path

\* Url::domain: the host when it is a domain name; None for an IP address
\* or a URL without a host.
Domain(u) == IF u.host # "" /\ u.host \notin IpHosts THEN Some(u.host) ELSE None

\* Url::join: an href resolved against a base URL.
\*   [k |-> "abs", s |-> str]      a reference with its own scheme
\*   [k |-> "root", segs |-> p]    a path-absolute reference  (/y)
\*   [k |-> "rel", segs |-> p]     a relative path reference  (../item/5)
\*   [k |-> "bad"]                 a reference that does not resolve
Join(base, href) ==
    CASE href.k = "abs" -> UrlParse(href.s)
      [] href.k = "root" ->
            IF base.scheme = "mailto" THEN None
            ELSE Some([base EXCEPT !.path = NormPath(<<>>, href.segs)])
      [] href.k = "rel" ->
            IF base.scheme = "mailto" THEN None
            ELSE Some([base EXCEPT !.path =
                    NormPath(<<>>, (IF base.path = <<>> THEN <<>>
                                    ELSE SubSeq(base.path, 1, Len(base.path) - 1))
                                   \o href.segs)])
      [] OTHER -> None

\* ---------------------------------------------------------------- document
\* A parsed document (Html::parse_document never fails) is the sequence of its
\* top-level div nodes in document order; a node holds its descendant elements
\* in document order.
NoHref == [k |-> "none"]

El(tag, autoid, label, hidden, pm, text, href) ==
    [tag |-> tag, autoid |-> autoid, label |-> label, hidden |-> hidden,
     pm |-> pm, text |-> text, href |-> href]

Node(itemId, autoid, elems) ==
    [tag |-> "div", itemId |-> itemId, autoid |-> autoid, elems |-> elems]

\* "div[data-item-id], div[data-automation-id='productTile']"
product_selector(n) ==
    n.tag = "div" /\ (n.itemId \/ n.autoid = "productTile")

\* "[data-automation-id='product-title'], a[aria-label],
\*  div[data-automation-id='product-title-link']"
name_selector(e) ==
    \/ e.autoid = "product-title"
    \/ (e.tag = "a" /\ e.label)
    \/ (e.tag = "div" /\ e.autoid = "product-title-link")

\* "[data-automation-id='product-price'], span[aria-hidden='true'],
\*  div.price-main span"
price_selector(e) ==
    \/ e.autoid = "product-price"
    \/ (e.tag = "span" /\ e.hidden)
    \/ (e.tag = "span" /\ e.pm)

\* "a"
link_selector(e) == e.tag = "a"

\* The positions of the elements a selector matches.
NameHits(elems) == {i \in 1..Len(elems) : name_selector(elems[i])}
PriceHits(elems) == {i \in 1..Len(elems) : price_selector(elems[i])}
LinkHits(elems) == {i \in 1..Len(elems) : link_selector(elems[i])}

\* select(sel).next(): the first element, in document order, that one of the
\* selectors of the group matches.
SelectFirst(elems, hits) ==
    IF hits # {}
    THEN Some(elems[CHOOSE i \in hits : \A j \in hits : i <= j])
    ELSE None

\* .map(|e| e.text().collect::<String>()).map(|s| s.trim().to_string())
\* .unwrap_or_default()
FieldText(elems, hits) ==
    LET e == SelectFirst(elems, hits)
    IN  IF e.some THEN Trim(e.v.text) ELSE <<>>

\* The skip test with && in place of ||.
SkipTileBoth(name, price) == name = <<>> /\ price = <<>>

\* The skip of a tile: name.is_empty() || price.is_empty().
SkipTile(name, price) == name = <<>> \/ price = <<>>

\* The product URL taken from the first anchor of the tile whose href
\* resolves, anchors without a usable href passed over.
ProductUrlFirstUsable(tile, page_url) ==
    LET ok == {i \in LinkHits(tile.elems) :
                 /\ tile.elems[i].href # NoHref
                 /\ Join(page_url, tile.elems[i].href).some}
    IN  IF ok # {}
        THEN AsStr(Join(page_url,
                        tile.elems[CHOOSE i \in ok : \A j \in ok : i <= j].href).v)
        ELSE AsStr(page_url)

\* The product URL: the first link inside the tile, its href joined to the
\* page URL, else the page URL.
ProductUrl(tile, page_url) ==
    LET a == SelectFirst(tile.elems, LinkHits(tile.elems))
    IN  IF a.some /\ a.v.href # NoHref /\ Join(page_url, a.v.href).some
        THEN AsStr(Join(page_url, a.v.href).v)
        ELSE AsStr(page_url)

RECURSIVE Products(_, _)
\* The Product records extract_products serializes for a document, in order.
Products(nodes, page_url) ==
    IF nodes = <<>> THEN <<>>
    ELSE LET n == Head(nodes)
             name == FieldText(n.elems, NameHits(n.elems))
             price == FieldText(n.elems, PriceHits(n.elems))
             rest == Products(Tail(nodes), page_url)
         IN  IF product_selector(n) /\ ~SkipTile(name, price)
             THEN <<[url |-> ProductUrl(n, page_url), name |-> name,
                     price |-> price]>> \o rest
             ELSE rest

RECURSIVE Flatten(_)
Flatten(nodes) ==
    IF nodes = <<>> THEN <<>> ELSE Head(nodes).elems \o Flatten(Tail(nodes))

\* document.select(&link_selector): every anchor of the document, in order.
Anchors(nodes) == SelectSeq(Flatten(nodes), link_selector)

\* The domain filter of link discovery: TRUE when the link is dropped.
OutOfDomain(sd, next_url) ==
    /\ sd.some
    /\ (IF Domain(next_url).some THEN Domain(next_url).v # sd.v ELSE TRUE)

RECURSIVE DiscoverUnchecked(_, _, _, _)
\* The link loop without the visited test.
DiscoverUnchecked(as, base, sd, seen) ==
    IF as = <<>> THEN <<>>
    ELSE LET a == Head(as)
             rest == DiscoverUnchecked(Tail(as), base, sd, seen)
             j == IF a.href # NoHref THEN Join(base, a.href) ELSE None
         IN  IF j.some /\ ~OutOfDomain(sd, j.v)
             THEN <<j.v>> \o rest
             ELSE rest

RECURSIVE DiscoverBreaks(_, _, _, _)
\* The link loop leaving at the first link the domain filter drops.
DiscoverBreaks(as, base, sd, seen) ==
    IF as = <<>> THEN <<>>
    ELSE LET a == Head(as)
             rest == DiscoverBreaks(Tail(as), base, sd, seen)
             j == IF a.href # NoHref THEN Join(base, a.href) ELSE None
         IN  IF j.some /\ OutOfDomain(sd, j.v) THEN <<>>
             ELSE IF j.some /\ AsStr(j.v) \notin seen
             THEN <<j.v>> \o rest
             ELSE rest

RECURSIVE Discover(_, _, _, _)
\* The URLs the link loop pushes for the anchors `as`, in order: the href
\* joins, the domain filter lets it pass, and its string is not visited.
Discover(as, base, sd, seen) ==
    IF as = <<>> THEN <<>>
    ELSE LET a == Head(as)
             rest == Discover(Tail(as), base, sd, seen)
             j == IF a.href # NoHref THEN Join(base, a.href) ELSE None
         IN  IF j.some /\ ~OutOfDomain(sd, j.v) /\ AsStr(j.v) \notin seen
             THEN <<j.v>> \o rest
             ELSE rest

\* ------------------------------------------------------------------ inputs
\* Element and href shorthands for the pages below.
Rel(segs) == [k |-> "rel", segs |-> segs]
Root(segs) == [k |-> "root", segs |-> segs]
Abs(str) == [k |-> "abs", s |-> str]
BadRef == [k |-> "bad"]

A(href) == El("a", "", FALSE, FALSE, FALSE, <<"g", "o">>, href)
ALabel(text, href) == El("a", "", TRUE, FALSE, FALSE, text, href)
Title(text) == El("span", "product-title", FALSE, FALSE, FALSE, text, NoHref)
TitleLink(text) == El("div", "product-title-link", FALSE, FALSE, FALSE, text, NoHref)
Price(text) == El("div", "product-price", FALSE, FALSE, FALSE, text, NoHref)
HiddenSpan(text) == El("span", "", FALSE, TRUE, FALSE, text, NoHref)
PriceMainSpan(text) == El("span", "", FALSE, FALSE, TRUE, text, NoHref)
Plain(text) == El("span", "", FALSE, FALSE, FALSE, text, NoHref)

Nav(elems) == Node(FALSE, "", elems)
ItemTile(elems) == Node(TRUE, "", elems)
AutoTile(elems) == Node(FALSE, "productTile", elems)

Shop == "shop.example.com"
Other == "other.example.com"
Sub == "m.shop.example.com"

TvTile == ItemTile(<<ALabel(<<" ", "T", "V">>, Rel(<<"..", "item", "5">>)),
                     Price(<<"$", "5", " ">>)>>)
BlankNameTile == AutoTile(<<Title(<<" ", "\t">>), Price(<<"$", "1">>),
                            A(Rel(<<"w">>))>>)
NoPriceTile == ItemTile(<<Title(<<"P", "e", "n">>), Plain(<<"$", "3">>)>>)
CupTile == AutoTile(<<HiddenSpan(<<"$", "2">>), TitleLink(<<"C", "u", "p">>)>>)
CommaTile == ItemTile(<<A(NoHref), Title(<<"a", ",", "b">>),
                        PriceMainSpan(<<"\n", "$", "9">>), A(BadRef)>>)

\* The catalogue page: product tiles (two of them incomplete) and links that
\* are relative, repeated, self-referring, cross-domain, to a subdomain,
\* without a host, unresolvable, and an anchor without href.
CatPage ==
    <<Nav(<<A(Rel(<<"y">>)), A(Abs(<<"https", Other, "x">>)), A(Rel(<<"cat">>)),
            A(Abs(<<"mailto", "", "a@b">>)), A(NoHref), A(Rel(<<"y">>)),
            A(Abs(<<"https", Sub, "z">>)), A(BadRef)>>),
      TvTile, BlankNameTile, NoPriceTile, CupTile>>

\* A second listing page: the same product again, links back and onwards.
YPage ==
    <<TvTile, Nav(<<A(Root(<<"cat">>)), A(Rel(<<"item", "6">>)),
                    A(Abs(<<"http", Shop, "cat">>))>>), CommaTile>>

\* A tile whose first anchor does not resolve, and whose elements for the
\* later selectors of the name and price groups precede those for the first.
MixedTile ==
    AutoTile(<<A(BadRef), TitleLink(<<"O", "l", "d">>), HiddenSpan(<<"$", "7">>),
               Title(<<"N", "e", "w">>), Price(<<"$", "5">>), A(Rel(<<"6">>))>>)

\* A product page: links to itself and to a sibling.
ItemPage == <<Nav(<<A(Rel(<<"..", "item", "5">>)), A(Rel(<<"6">>))>>), MixedTile>>

\* A page without links or tiles (also what an unknown URL answers).
EmptyPage == <<>>

\* A page on an IP-address host: one local link, one to another site, one
\* without a host.
IpPage ==
    <<Nav(<<A(Rel(<<"a">>)), A(Abs(<<"https", Other, "x">>)),
            A(Abs(<<"mailto", "", "a@b">>))>>), CupTile>>

\* A page that links to many pages of its own site.
HubPage ==
    <<Nav(<<A(Rel(<<"p1">>)), A(Rel(<<"p2">>)), A(Rel(<<"p1">>)), A(Rel(<<"p3">>)),
            A(Rel(<<"p4">>)), A(Rel(<<"hub">>))>>)>>

\* A site whose every URL answers the same product page.
UniformPage == <<TvTile, Nav(<<A(Rel(<<"..", "item", "5">>)), A(Rel(<<"6">>))>>)>>

\* The webs a run may face.
Sites == {"shop", "uniform"}

\* The web: the document a successful GET of a URL string answers.
Web(site, str) ==
    IF site = "uniform" THEN UniformPage
    ELSE CASE str = <<"https", Shop, "cat">> -> CatPage
           [] str = <<"https", Shop, "y">> -> YPage
           [] str = <<"https", Shop, "item", "5">> -> ItemPage
           [] str = <<"http", "127.0.0.1">> -> IpPage
           [] str = <<"https", Shop, "hub">> -> HubPage
           [] str = <<"https", Shop, "p1">> -> HubPage
           [] OTHER -> EmptyPage

\* The command lines: args[1] (absent, or a string) and args[2].
StartArgs ==
    {None,
     Some(<<"https", Shop, "cat">>),
     Some(<<"https", Shop, "lonely">>),
     Some(<<"https", Shop, "x", "..", "hub">>),
     Some(<<"http", "127.0.0.1">>),
     Some(<<Shop, "cat">>),
     Some(<<>>)}

RECURSIVE Decimal(_)
Decimal(n) == IF n < 10 THEN <<Digits[n + 1]>>
              ELSE Append(Decimal(n \div 10), Digits[(n % 10) + 1])

MaxPagesArgs ==
    {None, Some(<<"-", "1">>)} \cup {Some(Decimal(n)) : n \in 0..MaxPagesArg}

\* ------------------------------------------------------------------- state
VARIABLES
    site,         \* the web this run faces
    args1,        \* args[1], the start URL string (None when absent)
    args2,        \* args[2], the max_pages string (None when absent)
    pc,           \* the position of the process
    status,       \* "running", or how the process ended
    max_pages,
    start_domain,
    queue,        \* VecDeque<Url>
    visited,      \* HashSet<String>
    url,          \* the URL of the current iteration
    body,         \* the document of the current iteration
    created,      \* File::create("products.csv") has succeeded
    rows,         \* the rows of products.csv
    header,       \* the csv Writer's header state
    flushes,      \* the number of writer.flush() calls
    fetchLog,     \* the URL strings a GET was issued for, in order
    okLog,        \* the URL strings whose GET answered a body, in order
    failLog,      \* the URL strings whose GET failed, in order
    total,        \* the printed "Total pages visited" (-1 before it is printed)
    enqLog,       \* the URLs link discovery pushed, in order
    last,         \* the outcome of this iteration's fetch
    snap          \* queue, rows and enqLog when this iteration's fetch was issued

vars == <<site, args1, args2, pc, status, max_pages, start_domain, queue, visited, url,
          body, created, rows, header, flushes, fetchLog, okLog, failLog, total,
          enqLog, last, snap>>

NoUrl == [scheme |-> "", host |-> "", path |-> <<>>]

\* products.csv as an earlier run left it.
PriorFile == <<[via |-> "prior", fields |-> <<<<"o", "l", "d">>>>]>>

HeaderFields == <<<<"u", "r", "l">>, <<"n", "a", "m", "e">>, <<"p", "r", "i", "c", "e">>>>

Init ==
    /\ site \in Sites
    /\ args1 \in StartArgs
    /\ args2 \in MaxPagesArgs
    /\ (~args1.some => ~args2.some)
    /\ pc = "main"
    /\ status = "running"
    /\ max_pages = 0
    /\ start_domain = None
    /\ queue = <<>>
    /\ visited = {}
    /\ url = NoUrl
    /\ body = <<>>
    /\ created = FALSE
    /\ rows = PriorFile
    /\ header = "Write"
    /\ flushes = 0
    /\ fetchLog = <<>>
    /\ okLog = <<>>
    /\ failLog = <<>>
    /\ total = -1
    /\ enqLog = <<>>
    /\ last = "none"
    /\ snap = [queue |-> <<>>, rows |-> <<>>, enq |-> <<>>]

\* ---------------------------------------------------------------- the sink
\* Writer::write_record: one row; the header state is left as it is.
WriteRecord(w, fields) ==
    [w EXCEPT !.rows = Append(w.rows, [via |-> "write_record", fields |-> fields])]

\* Writer::serialize of a struct. A writer built with Writer::from_writer has
\* has_headers on: the first serialize writes the struct's field names as a
\* row of their own before the record.
Serialize(w, rec) ==
    LET row == [via |-> "serialize", fields |-> <<rec.url, rec.name, rec.price>>]
    IN  IF w.header = "Write"
        THEN [header |-> "DidWrite",
              rows |-> w.rows \o <<[via |-> "serialize_header",
                                    fields |-> HeaderFields], row>>]
        ELSE [w EXCEPT !.rows = Append(w.rows, row)]

RECURSIVE SerializeAll(_, _)
\* The writer after the serialize calls of one extract_products.
SerializeAll(w, recs) ==
    IF recs = <<>> THEN w
    ELSE SerializeAll(Serialize(w, Head(recs)), Tail(recs))

\* -------------------------------------------------------------------- main
\* args[2].parse().unwrap_or(20), or 20 when absent.
MaxPagesOf(arg) ==
    IF arg.some /\ ParseUsize(arg.v).some THEN ParseUsize(arg.v).v
    ELSE DefaultMaxPages

\* args.len() < 2: the usage message.
MainUsage ==
    /\ pc = "main"
    /\ ~args1.some
    /\ pc' = "exit"
    /\ status' = "usage"
    /\ UNCHANGED <<site, args1, args2, max_pages, start_domain, queue, visited, url, body,
                   created, rows, header, flushes, fetchLog, okLog, enqLog, last, snap,
                   failLog, total>>

\* The error reported without the return.
MainInvalidGoesOn ==
    /\ pc = "main"
    /\ args1.some
    /\ ~UrlParse(args1.v).some
    /\ pc' = "create"
    /\ status' = "invalid"
    /\ UNCHANGED <<site, args1, args2, max_pages, start_domain, queue, visited, url,
                   body, created, rows, header, flushes, fetchLog, okLog, enqLog, last,
                   snap,
                   failLog, total>>

\* Url::parse fails: "Invalid start URL".
MainInvalid ==
    /\ pc = "main"
    /\ args1.some
    /\ ~UrlParse(args1.v).some
    /\ pc' = "exit"
    /\ status' = "invalid"
    /\ UNCHANGED <<site, args1, args2, max_pages, start_domain, queue, visited, url, body,
                   created, rows, header, flushes, fetchLog, okLog, enqLog, last, snap,
                   failLog, total>>

\* The call of crawl_and_extract(start_url, max_pages), up to the domain.
MainCrawl ==
    /\ pc = "main"
    /\ args1.some
    /\ UrlParse(args1.v).some
    /\ max_pages' = MaxPagesOf(args2)
    /\ url' = UrlParse(args1.v).v
    /\ start_domain' = Domain(UrlParse(args1.v).v)
    /\ pc' = "create"
    /\ UNCHANGED <<site, args1, args2, status, queue, visited, body, created, rows, header,
                   flushes, fetchLog, okLog, enqLog, last, snap,
                   failLog, total>>

\* ------------------------------------------------------- crawl_and_extract
\* A sink error of extract_products logged, the loop going on.
SinkErrorLogged ==
    /\ pc' = IF pc = "extract" THEN "discover" ELSE "exit"
    /\ status' = "failed"

\* A sink operation failed: the ? returns the error to main ("Crawl failed").
SinkError ==
    /\ pc' = "exit"
    /\ status' = "failed"

\* File::create("products.csv")?
CreateOk ==
    /\ pc = "create"
    /\ created' = TRUE
    /\ rows' = <<>>
    /\ pc' = "header"
    /\ UNCHANGED <<site, args1, args2, status, max_pages, start_domain, queue, visited, url,
                   body, header, flushes, fetchLog, okLog, enqLog, last, snap,
                   failLog, total>>

CreateErr ==
    /\ pc = "create"
    /\ SinkError
    /\ UNCHANGED <<site, args1, args2, max_pages, start_domain, queue, visited, url, body,
                   created, rows, header, flushes, fetchLog, okLog, enqLog, last, snap,
                   failLog, total>>

\* writer.write_record(&["url", "name", "price"])?; queue.push_back(start_url)
HeaderOk ==
    /\ pc = "header"
    /\ LET w == WriteRecord([header |-> header, rows |-> rows], HeaderFields)
       IN  rows' = w.rows /\ header' = w.header
    /\ queue' = Append(queue, url)
    /\ pc' = "loop"
    /\ UNCHANGED <<site, args1, args2, status, max_pages, start_domain, visited, url, body,
                   created, flushes, fetchLog, okLog, enqLog, last, snap,
                   failLog, total>>

HeaderErr ==
    /\ pc = "header"
    /\ SinkError
    /\ UNCHANGED <<site, args1, args2, max_pages, start_domain, queue, visited, url, body,
                   created, rows, header, flushes, fetchLog, okLog, enqLog, last, snap,
                   failLog, total>>

\* The cap test off by one: visited.len() > max_pages.
CapReachedLate(seen, max) == Cardinality(seen) > max

\* visited.len() >= max_pages
CapReached(seen, max) == Cardinality(seen) >= max

\* The visited test left out.
AlreadyVisitedNever(str, seen) == FALSE

\* visited.contains(&url_str)
AlreadyVisited(str, seen) == str \in seen

\* queue.pop_front() is None: the loop ends.
LoopExhausted ==
    /\ pc = "loop"
    /\ queue = <<>>
    /\ pc' = "flush"
    /\ last' = "none"
    /\ UNCHANGED <<site, args1, args2, status, max_pages, start_domain, queue, visited, url,
                   body, created, rows, header, flushes, fetchLog, okLog, enqLog, snap,
                   failLog, total>>

\* The break at the cap taken after the insert into visited.
LoopCapMarks ==
    /\ pc = "loop"
    /\ queue # <<>>
    /\ CapReached(visited, max_pages)
    /\ queue' = Tail(queue)
    /\ url' = Head(queue)
    /\ visited' = visited \cup {AsStr(Head(queue))}
    /\ pc' = "flush"
    /\ last' = "none"
    /\ UNCHANGED <<site, args1, args2, status, max_pages, start_domain, body,
                   created, rows, header, flushes, fetchLog, okLog, enqLog, snap,
                   failLog, total>>

\* A URL is popped and the cap is reached: break.
LoopCap ==
    /\ pc = "loop"
    /\ queue # <<>>
    /\ CapReached(visited, max_pages)
    /\ queue' = Tail(queue)
    /\ url' = Head(queue)
    /\ pc' = "flush"
    /\ last' = "none"
    /\ UNCHANGED <<site, args1, args2, status, max_pages, start_domain, visited, body,
                   created, rows, header, flushes, fetchLog, okLog, enqLog, snap,
                   failLog, total>>

\* The skip that puts the URL back at the end of the queue.
LoopSkipRequeues ==
    /\ pc = "loop"
    /\ queue # <<>>
    /\ ~CapReached(visited, max_pages)
    /\ AlreadyVisited(AsStr(Head(queue)), visited)
    /\ queue' = Append(Tail(queue), Head(queue))
    /\ url' = Head(queue)
    /\ last' = "none"
    /\ UNCHANGED <<site, args1, args2, pc, status, max_pages, start_domain, visited,
                   body, created, rows, header, flushes, fetchLog, okLog, enqLog, snap,
                   failLog, total>>

\* A URL is popped whose string is visited already: continue.
LoopSkip ==
    /\ pc = "loop"
    /\ queue # <<>>
    /\ ~CapReached(visited, max_pages)
    /\ AlreadyVisited(AsStr(Head(queue)), visited)
    /\ queue' = Tail(queue)
    /\ url' = Head(queue)
    /\ last' = "none"
    /\ UNCHANGED <<site, args1, args2, pc, status, max_pages, start_domain, visited, body,
                   created, rows, header, flushes, fetchLog, okLog, enqLog, snap,
                   failLog, total>>

\* The URL popped and sent for, the insert into visited left for later.
LoopVisitUnmarked ==
    /\ pc = "loop"
    /\ queue # <<>>
    /\ ~CapReached(visited, max_pages)
    /\ ~AlreadyVisited(AsStr(Head(queue)), visited)
    /\ queue' = Tail(queue)
    /\ url' = Head(queue)
    /\ pc' = "send"
    /\ last' = "none"
    /\ UNCHANGED <<site, args1, args2, status, max_pages, start_domain, visited, body,
                   created, rows, header, flushes, fetchLog, okLog, enqLog, snap,
                   failLog, total>>

\* A URL is popped and marked visited.
LoopVisit ==
    /\ pc = "loop"
    /\ queue # <<>>
    /\ ~CapReached(visited, max_pages)
    /\ ~AlreadyVisited(AsStr(Head(queue)), visited)
    /\ queue' = Tail(queue)
    /\ url' = Head(queue)
    /\ visited' = visited \cup {AsStr(Head(queue))}
    /\ pc' = "send"
    /\ last' = "none"
    /\ UNCHANGED <<site, args1, args2, status, max_pages, start_domain, body, created, rows,
                   header, flushes, fetchLog, okLog, enqLog, snap,
                   failLog, total>>

\* client.get(url.clone()).send(): the GET is issued.
Send ==
    /\ pc = "send"
    /\ fetchLog' = Append(fetchLog, AsStr(url))
    /\ snap' = [queue |-> queue, rows |-> rows, enq |-> enqLog]
    /\ pc' = "await"
    /\ UNCHANGED <<site, args1, args2, status, max_pages, start_domain, queue, visited, url,
                   body, created, rows, header, flushes, okLog, enqLog, last,
                   failLog, total>>

\* A failed fetch propagated with ? instead of continue.
FetchFailedAborts(kind) ==
    /\ pc = "await"
    /\ last' = kind
    /\ pc' = "exit"
    /\ status' = "failed"
    /\ failLog' = Append(failLog, AsStr(url))
    /\ UNCHANGED <<site, args1, args2, max_pages, start_domain, queue, visited, url,
                   body, created, rows, header, flushes, fetchLog, okLog, enqLog, snap,
                   total>>

\* A failed fetch that takes the URL out of visited again.
FetchFailedForgets(kind) ==
    /\ pc = "await"
    /\ last' = kind
    /\ pc' = "loop"
    /\ failLog' = Append(failLog, AsStr(url))
    /\ visited' = visited \ {AsStr(url)}
    /\ UNCHANGED <<site, args1, args2, status, max_pages, start_domain, queue, url,
                   body, created, rows, header, flushes, fetchLog, okLog, enqLog, snap,
                   total>>

\* What the loop does on a failed fetch: continue.
FetchFailed(kind) ==
    /\ pc = "await"
    /\ last' = kind
    /\ pc' = "loop"
    /\ failLog' = Append(failLog, AsStr(url))
    /\ UNCHANGED <<site, args1, args2, status, max_pages, start_domain, queue, visited, url,
                   body, created, rows, header, flushes, fetchLog, okLog, enqLog, snap,
                   total>>

\* send() answers Err: "Request failed".
FetchRequestFailed == FetchFailed("request_failed")

\* resp.text() answers Err: "Failed to read body". Only an http(s) request
\* gets a response at all.
FetchBodyFailed ==
    /\ url.scheme \in {"http", "https"}
    /\ FetchFailed("body_failed")

\* The body text arrives.
FetchOk ==
    /\ pc = "await"
    /\ url.scheme \in {"http", "https"}
    /\ body' = Web(site, AsStr(url))
    /\ okLog' = Append(okLog, AsStr(url))
    /\ last' = "ok"
    /\ pc' = "extract"
    /\ UNCHANGED <<site, args1, args2, status, max_pages, start_domain, queue, visited, url,
                   created, rows, header, flushes, fetchLog, enqLog, snap,
                   failLog, total>>

\* The extraction followed by a flush of the writer for every page.
ExtractOkFlushes ==
    /\ pc = "extract"
    /\ LET w == SerializeAll([header |-> header, rows |-> rows], Products(body, url))
       IN  rows' = w.rows /\ header' = w.header
    /\ flushes' = flushes + 1
    /\ pc' = "discover"
    /\ UNCHANGED <<site, args1, args2, status, max_pages, start_domain, queue, visited, url,
                   body, created, fetchLog, okLog, enqLog, last, snap, failLog, total>>

\* extract_products(&body, &url, &mut writer)? with every serialize succeeding.
ExtractOk ==
    /\ pc = "extract"
    /\ LET w == SerializeAll([header |-> header, rows |-> rows], Products(body, url))
       IN  rows' = w.rows /\ header' = w.header
    /\ pc' = "discover"
    /\ UNCHANGED <<site, args1, args2, status, max_pages, start_domain, queue, visited, url,
                   body, created, flushes, fetchLog, okLog, enqLog, last, snap,
                   failLog, total>>

\* extract_products with the k-th serialize failing: the records before it are
\* written and the error is returned.
ExtractErr ==
    /\ pc = "extract"
    /\ \E k \in 1..Len(Products(body, url)) :
          LET w == SerializeAll([header |-> header, rows |-> rows],
                                SubSeq(Products(body, url), 1, k - 1))
          IN  rows' = w.rows /\ header' = w.header
    /\ SinkError
    /\ UNCHANGED <<site, args1, args2, max_pages, start_domain, queue, visited, url, body,
                   created, flushes, fetchLog, okLog, enqLog, last, snap,
                   failLog, total>>

\* The link loop pushing at the front of the queue.
DiscoverLinksPushFront ==
    /\ pc = "discover"
    /\ LET new == Discover(Anchors(body), url, start_domain, visited)
       IN  /\ queue' = new \o queue
           /\ enqLog' = enqLog \o new
    /\ pc' = "loop"
    /\ UNCHANGED <<site, args1, args2, status, max_pages, start_domain, visited, url, body,
                   created, rows, header, flushes, fetchLog, okLog, last, snap,
                   failLog, total>>

\* The link loop over the document's anchors.
DiscoverLinks ==
    /\ pc = "discover"
    /\ LET new == Discover(Anchors(body), url, start_domain, visited)
       IN  /\ queue' = queue \o new
           /\ enqLog' = enqLog \o new
    /\ pc' = "loop"
    /\ UNCHANGED <<site, args1, args2, status, max_pages, start_domain, visited, url, body,
                   created, rows, header, flushes, fetchLog, okLog, last, snap,
                   failLog, total>>

\* writer.flush()?, the "Total pages visited" line and Ok(()).
FlushOk ==
    /\ pc = "flush"
    /\ flushes' = flushes + 1
    /\ pc' = "exit"
    /\ status' = "ok"
    /\ total' = Cardinality(visited)
    /\ UNCHANGED <<site, args1, args2, max_pages, start_domain, queue, visited, url, body,
                   created, rows, header, fetchLog, okLog, enqLog, last, snap,
                   failLog>>

FlushErr ==
    /\ pc = "flush"
    /\ flushes' = flushes + 1
    /\ SinkError
    /\ UNCHANGED <<site, args1, args2, max_pages, start_domain, queue, visited, url, body,
                   created, rows, header, fetchLog, okLog, enqLog, last, snap,
                   failLog, total>>

Next ==
    \/ MainUsage
    \/ MainInvalid
    \/ MainCrawl
    \/ CreateOk
    \/ CreateErr
    \/ HeaderOk
    \/ HeaderErr
    \/ LoopExhausted
    \/ LoopCap
    \/ LoopSkip
    \/ LoopVisit
    \/ Send
    \/ FetchRequestFailed
    \/ FetchBodyFailed
    \/ FetchOk
    \/ ExtractOk
    \/ ExtractErr
    \/ DiscoverLinks
    \/ FlushOk
    \/ FlushErr

Spec == Init /\ [][Next]_vars

\* Every step of the process is eventually taken: the process runs on, and a
\* fetch that is awaited returns a body or an error.
FairSpec == Spec /\ WF_vars(Next)

\* ================================================================== claims
FetchFailures == {"request_failed", "body_failed"}

\* The data rows of a row sequence: the rows serialize wrote for a record.
DataRows(rs) == SelectSeq(rs, LAMBDA r : r.via = "serialize")

\* ---- C1
\* C1: in every reachable state, for every start URL, every max_pages (0
\* included), every site and every mix of failed fetches, the number of URL
\* strings in visited is at most max_pages.
C1_VisitedWithinCap == Cardinality(visited) <= max_pages

\* A run that ended normally with visited filled up to a cap of two or more.
C1_Witness ==
    /\ status = "ok"
    /\ max_pages >= 2
    /\ Cardinality(visited) = max_pages
    /\ \E i \in 1..Len(fetchLog) : fetchLog[i] \notin {okLog[j] : j \in 1..Len(okLog)}

\* ---- C2
\* C2: for every start URL that parses (one on an IP-address host included),
\* every URL link discovery pushed has the start URL's domain; read in the
\* claim's favour, a pushed URL without a domain passes when the start URL has
\* none either.
C2_EnqueuedInStartDomain ==
    \A i \in 1..Len(enqLog) : Domain(enqLog[i]) = start_domain

\* ---- C3
NoDuplicateFetch ==
    \A i, j \in 1..Len(fetchLog) : i # j => fetchLog[i] # fetchLog[j]

SkipDoesNothing ==
    (pc = "loop" /\ queue # <<>> /\ Cardinality(visited) < max_pages
        /\ AsStr(Head(queue)) \in visited)
    => /\ pc' = "loop"
       /\ queue' = Tail(queue)
       /\ fetchLog' = fetchLog
       /\ rows' = rows
       /\ enqLog' = enqLog
       /\ visited' = visited

\* C3: no URL string has a GET issued twice, and the step that dequeues a URL
\* whose string is in visited issues no fetch, writes no row and pushes no
\* link.
C3_FetchedAtMostOnce == [](NoDuplicateFetch) /\ [][SkipDoesNothing]_vars

\* A visited URL has just been dequeued and skipped, after two or more fetches.
C3_Witness ==
    /\ pc = "loop"
    /\ last = "none"
    /\ AsStr(url) \in visited
    /\ Len(fetchLog) >= 2
    /\ Cardinality({i \in 1..Len(enqLog) : enqLog[i] = url}) >= 2

\* ---- C4
\* C4: right after a failed fetch the run goes on (it is at the loop head and
\* has not ended), and the queue, the rows and the pushed links are what they
\* were when the fetch was issued.
C4_FetchFailureIsolated ==
    (last \in FetchFailures)
    => /\ pc = "loop"
       /\ status = "running"
       /\ queue = snap.queue
       /\ rows = snap.rows
       /\ enqLog = snap.enq

\* A fetch has just failed with URLs still queued and rows already written.
C4_Witness ==
    /\ last = "body_failed"
    /\ pc = "loop"
    /\ queue # <<>>
    /\ DataRows(rows) # <<>>
\* ---- C5
\* C5: once the header is written, the file is one header row, the first row,
\* followed only by product rows: no other row is a header.
C5_OneHeaderThenRecords ==
    (created /\ pc \notin {"create", "header"} /\ rows # <<>>)
    => {i \in 1..Len(rows) : rows[i].fields = HeaderFields} = {1}

\* ---- C6
\* The tiles of a document whose name and price elements both hold text that
\* is not blank.
CompleteTiles(nodes) ==
    {i \in 1..Len(nodes) :
        /\ product_selector(nodes[i])
        /\ \E e \in {SelectFirst(nodes[i].elems, NameHits(nodes[i].elems))} :
              e.some /\ \E k \in 1..Len(e.v.text) : ~IsSpace(e.v.text[k])
        /\ \E e \in {SelectFirst(nodes[i].elems, PriceHits(nodes[i].elems))} :
              e.some /\ \E k \in 1..Len(e.v.text) : ~IsSpace(e.v.text[k])}

NonBlank(text) == \E k \in 1..Len(text) : ~IsSpace(text[k])

\* C6: every product row has a name and a price that are not blank, and a
\* page adds exactly one product row per tile whose name and price are both
\* present and not blank (the other tiles add none).
C6_RowsHaveNameAndPrice ==
    /\ \A i \in 1..Len(rows) :
          rows[i].via = "serialize"
          => NonBlank(rows[i].fields[2]) /\ NonBlank(rows[i].fields[3])
    /\ pc = "discover"
       => Len(DataRows(rows)) - Len(DataRows(snap.rows))
            = Cardinality(CompleteTiles(body))

\* The catalogue page has been extracted: two of its four tiles gave a row,
\* the tile with a blank name and the tile without a price gave none.
C6_Witness ==
    /\ pc = "discover"
    /\ body = CatPage
    /\ Len(DataRows(rows)) = 2
    /\ Cardinality({i \in 1..Len(body) : product_selector(body[i])}) = 4
\* ---- C7
\* The start URL in string form (of a start argument that parses).
StartStr == AsStr(UrlParse(args1.v).v)

\* C7: the process eventually ends; a run that ends without a sink error ends
\* with the queue empty or visited at max_pages; and a run on a start page
\* without outbound links, with max_pages >= 2, ends with one page visited.
C7_Terminates ==
    /\ <>(pc = "exit")
    /\ [](status = "ok" => (queue = <<>> \/ Cardinality(visited) >= max_pages))
    /\ []((status = "ok" /\ max_pages >= 2 /\ Anchors(Web(site, StartStr)) = <<>>)
            => Cardinality(visited) = 1)

\* A run on the page without links ended normally below the cap.
C7_Witness ==
    /\ status = "ok"
    /\ pc = "exit"
    /\ max_pages >= 2
    /\ Anchors(Web(site, StartStr)) = <<>>
    /\ okLog = <<StartStr>>
    /\ queue = <<>>

\* ---- C8
\* The URLs on the page's own host, other than the page itself, that the
\* document of the page at `str` links to.
LinkedFrom(str) ==
    LET u == UrlParse(str).v
        as == Anchors(Web(site, str))
    IN  {AsStr(Join(u, as[i].href).v) :
            i \in {k \in 1..Len(as) :
                    /\ as[k].href # NoHref
                    /\ Join(u, as[k].href).some
                    /\ Join(u, as[k].href).v.host = u.host
                    /\ AsStr(Join(u, as[k].href).v) # str}}

\* The cap part of C8: a GET is issued at most max_pages times, and a run
\* whose loop ended with URLs still queued has visited max_pages URLs.
CapStopsFetching ==
    /\ Len(fetchLog) <= max_pages
    /\ ((pc = "flush" \/ status = "ok") /\ queue # <<>>)
         => Cardinality(visited) = max_pages /\ Len(fetchLog) = max_pages

\* The start page links to at least max_pages - 1 other in-domain pages.
StartLinksEnough ==
    /\ args1.some
    /\ UrlParse(args1.v).some
    /\ Cardinality(LinkedFrom(StartStr)) >= max_pages - 1

\* C8 as stated: the cap part, and whenever the start page links to at least
\* max_pages - 1 distinct other in-domain pages, a run that ended has issued
\* exactly max_pages GETs.
C8_ExactlyMaxPagesFetched ==
    /\ CapStopsFetching
    /\ (status = "ok" /\ StartLinksEnough) => Len(fetchLog) = max_pages

\* C8 amended: the same, for the runs whose fetch of the start page answered
\* a body.
C8_ExactlyMaxPagesWhenStartFetched ==
    /\ CapStopsFetching
    /\ (status = "ok" /\ StartLinksEnough /\ okLog # <<>>
            /\ okLog[1] = StartStr)
         => Len(fetchLog) = max_pages

\* A run with max_pages = 3 whose start page links to three others stopped at
\* the cap with URLs left in the queue, one of its fetches having failed.
C8_Witness ==
    /\ status = "ok"
    /\ max_pages = 3
    /\ StartLinksEnough
    /\ okLog # <<>> /\ okLog[1] = StartStr
    /\ Len(okLog) < Len(fetchLog)
    /\ Len(fetchLog) = 3
    /\ queue # <<>>

\* ---- C9
\* The start arguments that are not absolute URLs.
RelativeStartArgs == {<<Shop, "cat">>, <<>>}

\* C9: with a start argument that is no absolute URL the process ends as
\* "invalid" from main: the file is not created, its rows are the earlier
\* run's, no GET is issued and nothing is queued or visited.
C9_InvalidStartNoIO ==
    (status = "invalid" \/ (args1.some /\ args1.v \in RelativeStartArgs))
    => /\ pc \in {"main", "exit"}
       /\ (pc = "exit" => status = "invalid")
       /\ ~created
       /\ rows = PriorFile
       /\ fetchLog = <<>>
       /\ queue = <<>>
       /\ visited = {}
       /\ flushes = 0

C9_Witness ==
    /\ pc = "exit"
    /\ status = "invalid"
    /\ args1.v = <<Shop, "cat">>
    /\ args2 = Some(<<"2">>)

\* ---- C10
FailedIsFinal ==
    status = "failed" => UNCHANGED <<queue, visited, fetchLog, rows, pc, status>>

\* C10: after a sink error the process has ended and nothing is dequeued,
\* fetched or written any more; when the file could not be created or the
\* header not written, no GET was ever issued.
C10_SinkErrorFatal ==
    /\ [](status = "failed"
            => /\ pc = "exit"
               /\ (~created \/ rows = <<>>) => (fetchLog = <<>> /\ visited = {}))
    /\ [][FailedIsFinal]_vars

\* A product row could not be written on the second page: the run ended with
\* URLs still queued.
C10_Witness ==
    /\ status = "failed"
    /\ pc = "exit"
    /\ flushes = 0
    /\ Len(okLog) = 2
    /\ queue # <<>>
    /\ DataRows(rows) # <<>>
\* ---- C11
FlushIsLast ==
    /\ pc = "flush" => (flushes' = 1 /\ pc' = "exit" /\ rows' = rows
                            /\ fetchLog' = fetchLog)
    /\ flushes >= 1 => UNCHANGED <<flushes, rows, fetchLog, queue, visited>>

\* C11: writer.flush() is not called while the process is before or in the
\* loop; a run whose loop ended (by exhaustion or by the cap) calls it once,
\* as the step that follows the loop, and after it no row is written and no
\* GET issued.
C11_FlushOnceAtEnd ==
    /\ [](pc # "exit" => flushes = 0)
    /\ [](status = "ok" => flushes = 1)
    /\ [](flushes <= 1)
    /\ [][FlushIsLast]_vars

\* A run of several fetches that wrote product rows has flushed once.
C11_Witness ==
    /\ status = "ok"
    /\ flushes = 1
    /\ Len(fetchLog) >= 2
    /\ Len(DataRows(rows)) >= 2
\* ---- C12
\* The GETs issued and not yet answered.
InFlight == Len(fetchLog) - Len(okLog) - Len(failLog)

Range(seq) == {seq[i] : i \in 1..Len(seq)}

\* The order of the steps for one URL, as states.
SerialStates ==
    /\ Range(fetchLog) \subseteq visited
    /\ pc = "send" => (AsStr(url) \in visited /\ AsStr(url) \notin Range(fetchLog))
    /\ InFlight \in {0, 1}
    /\ InFlight = 1 <=> pc = "await"
    /\ pc = "extract" =>
          /\ okLog[Len(okLog)] = AsStr(url)
          /\ fetchLog[Len(fetchLog)] = AsStr(url)
          /\ rows = snap.rows /\ enqLog = snap.enq /\ queue = snap.queue
    /\ pc = "discover" =>
          /\ okLog[Len(okLog)] = AsStr(url)
          /\ enqLog = snap.enq /\ queue = snap.queue

\* The order of the steps for one URL, as steps: the insert into visited is
\* a step of the loop head with no GET unanswered, a GET is issued for the
\* URL just inserted, rows are written by the extraction of a fetched page
\* and links pushed by the discovery that ends the iteration.
SerialSteps ==
    /\ visited' # visited => (pc = "loop" /\ pc' = "send" /\ InFlight = 0
                                /\ fetchLog' = fetchLog)
    /\ fetchLog' # fetchLog => (pc = "send" /\ pc' = "await"
                                /\ fetchLog' = Append(fetchLog, AsStr(url))
                                /\ AsStr(url) \in visited)
    /\ DataRows(rows') # DataRows(rows) => (pc = "extract" /\ last = "ok"
                                /\ enqLog' = enqLog /\ queue' = queue)
    /\ enqLog' # enqLog => (pc = "discover" /\ pc' = "loop" /\ rows' = rows)
    /\ pc = "discover" => pc' = "loop"

\* C12: a URL's string is in visited before its GET is issued; a page's rows
\* are written after its fetch succeeded and before its links are pushed; the
\* next URL is taken only after that; at most one GET is unanswered.
C12_SerialPerUrl == [](SerialStates) /\ [][SerialSteps]_vars

\* The second page's GET is unanswered, the first page's rows and links done.
C12_Witness ==
    /\ pc = "await"
    /\ InFlight = 1
    /\ Len(fetchLog) = 2
    /\ DataRows(rows) # <<>>
    /\ enqLog # <<>>
\* ---- C13
\* The URLs pushed by the step, when it pushes any.
Pushed == SubSeq(enqLog', Len(enqLog) + 1, Len(enqLog'))

PushOnlyUnvisited ==
    /\ visited \subseteq visited'
    /\ enqLog' # enqLog =>
          /\ Len(enqLog') > Len(enqLog)
          /\ SubSeq(enqLog', 1, Len(enqLog)) = enqLog
          /\ queue' = queue \o Pushed
          /\ \A i \in 1..Len(Pushed) : AsStr(Pushed[i]) \notin visited

\* C13: link discovery pushes a URL only if its string is not in visited at
\* that moment, and no step removes an element from visited. (That the queue
\* may hold one string several times, and one that is visited by then, is
\* shown by the witness.)
C13_PushOnlyUnvisited == [][PushOnlyUnvisited]_vars

\* The queue holds one URL string twice, and a URL whose string is visited.
C13_Witness ==
    /\ pc = "loop"
    /\ \E i, j \in 1..Len(queue) : i # j /\ AsStr(queue[i]) = AsStr(queue[j])
    /\ \E i \in 1..Len(queue) : AsStr(queue[i]) \in visited
    /\ enqLog # <<>>
\* ---- C14
\* The strings of the URLs pushed onto the queue, in the order of the pushes:
\* the start URL, then those of link discovery.
EnqStrs == <<StartStr>> \o [i \in 1..Len(enqLog) |-> AsStr(enqLog[i])]

\* The position of the first push of a string.
FirstEnq(str) ==
    CHOOSE i \in 1..Len(EnqStrs) :
        EnqStrs[i] = str /\ \A j \in 1..(i - 1) : EnqStrs[j] # str

RECURSIVE IsSubseq(_, _)
\* `a` is `b` with some of its elements left out.
IsSubseq(a, b) ==
    IF a = <<>> THEN TRUE
    ELSE IF b = <<>> THEN FALSE
    ELSE IF Head(a) = Head(b) THEN IsSubseq(Tail(a), Tail(b))
    ELSE IsSubseq(a, Tail(b))

\* The hrefs of a document's anchors that resolve, resolved, in document order.
DocLinks(nodes, base) ==
    LET as == Anchors(nodes)
        ok == SelectSeq(as, LAMBDA a : a.href # NoHref /\ Join(base, a.href).some)
    IN  [i \in 1..Len(ok) |-> Join(base, ok[i].href).v]

\* The URLs pushed since this iteration's GET was issued.
PushedSince == SubSeq(enqLog, Len(snap.enq) + 1, Len(enqLog))

\* C14: the start URL is fetched first; of two fetched URLs the one pushed
\* first is fetched first; and the links of a page are appended to the queue
\* in document order.
C14_BreadthFirst ==
    /\ fetchLog # <<>> =>
          /\ fetchLog[1] = StartStr
          /\ Range(fetchLog) \subseteq Range(EnqStrs)
          /\ \A i, j \in 1..Len(fetchLog) :
                FirstEnq(fetchLog[i]) < FirstEnq(fetchLog[j]) => i < j
    /\ (pc = "loop" /\ last = "ok") =>
          /\ IsSubseq(PushedSince, DocLinks(body, url))
          /\ queue = snap.queue \o PushedSince

\* Three pages fetched and the third has pushed links; a URL pushed after the
\* third page's first push, and before the third page's own links, is not
\* fetched yet.
C14_Witness ==
    /\ Len(okLog) = 3
    /\ pc = "loop" /\ last = "ok"
    /\ Len(PushedSince) >= 1
    /\ FirstEnq(fetchLog[3]) < Len(EnqStrs) - Len(PushedSince)
    /\ \E k \in 1..Len(EnqStrs) :
          /\ FirstEnq(fetchLog[3]) < k
          /\ k <= Len(EnqStrs) - Len(PushedSince)
          /\ EnqStrs[k] \notin Range(fetchLog)
\* ---- C15
\* The name and price chains as ordered lists of matchers: the positions of
\* the elements the k-th matcher of the chain matches.
NameChainHits(elems, k) ==
    {i \in 1..Len(elems) :
        CASE k = 1 -> elems[i].autoid = "product-title"
          [] k = 2 -> elems[i].tag = "a" /\ elems[i].label
          [] OTHER -> elems[i].tag = "div" /\ elems[i].autoid = "product-title-link"}

PriceChainHits(elems, k) ==
    {i \in 1..Len(elems) :
        CASE k = 1 -> elems[i].autoid = "product-price"
          [] k = 2 -> elems[i].tag = "span" /\ elems[i].hidden
          [] OTHER -> elems[i].tag = "span" /\ elems[i].pm}

\* The trimmed text of the first element of the first non-empty set of hits.
ChainText(elems, h1, h2, h3) ==
    LET hits == IF h1 # {} THEN h1 ELSE IF h2 # {} THEN h2 ELSE h3
    IN  IF hits = {} THEN <<>>
        ELSE Trim(elems[CHOOSE i \in hits : \A j \in hits : i <= j].text)

ChainName(t) ==
    ChainText(t.elems, NameChainHits(t.elems, 1), NameChainHits(t.elems, 2),
              NameChainHits(t.elems, 3))

ChainPrice(t) ==
    ChainText(t.elems, PriceChainHits(t.elems, 1), PriceChainHits(t.elems, 2),
              PriceChainHits(t.elems, 3))

\* The <<name, price>> pairs of a document's tiles by the chains, for the
\* tiles where neither is empty.
ChainPairs(nodes) ==
    LET tiles == SelectSeq(nodes, LAMBDA n :
                    product_selector(n) /\ ChainName(n) # <<>> /\ ChainPrice(n) # <<>>)
    IN  [i \in 1..Len(tiles) |-> <<ChainName(tiles[i]), ChainPrice(tiles[i])>>]

\* The rows written since this iteration's GET was issued, as product rows.
RowsSince ==
    LET rs == DataRows(rows)
    IN  SubSeq(rs, Len(DataRows(snap.rows)) + 1, Len(rs))

\* C15: the name and the price of every row of a page are those of the first
\* matcher of the chain that matches in the tile, whatever the order of the
\* tile's elements.
C15_FirstMatcherWins ==
    pc = "discover" =>
        [i \in 1..Len(RowsSince) |-> <<RowsSince[i].fields[2], RowsSince[i].fields[3]>>]
            = ChainPairs(body)
\* ---- C16
\* The product URL the claim gives a tile on a page.
ExpectedUrl(t, page) ==
    LET as == SelectSeq(t.elems, LAMBDA e : e.tag = "a")
    IN  IF as = <<>> THEN AsStr(page)
        ELSE IF as[1].href = NoHref THEN AsStr(page)
        ELSE IF ~Join(page, as[1].href).some THEN AsStr(page)
        ELSE AsStr(Join(page, as[1].href).v)

\* The tiles of a document that give a row, in document order.
EmittingTiles(nodes) ==
    SelectSeq(nodes, LAMBDA n : \E i \in CompleteTiles(nodes) : nodes[i] = n)

\* C16: the URL of every row of a page is the first anchor's href resolved
\* against the page URL, or the page URL when the tile has no anchor, its
\* first anchor has no href or the href does not resolve, the row being
\* written all the same; https://shop.example.com/cat with ../item/5 gives
\* https://shop.example.com/item/5.
C16_ProductUrl ==
    pc = "discover" =>
        /\ [i \in 1..Len(RowsSince) |-> RowsSince[i].fields[1]]
             = [i \in 1..Len(EmittingTiles(body)) |->
                    ExpectedUrl(EmittingTiles(body)[i], url)]
        /\ (body = CatPage /\ AsStr(url) = <<"https", Shop, "cat">>) =>
              [i \in 1..Len(RowsSince) |-> RowsSince[i].fields[1]]
                = << <<"https", Shop, "item", "5">>, <<"https", Shop, "cat">> >>

\* The page at /y has been extracted: one row with the resolved ../item/5,
\* one with the page URL for the tile whose first anchor has no href.
C16_Witness ==
    /\ pc = "discover"
    /\ body = YPage
    /\ [i \in 1..Len(RowsSince) |-> RowsSince[i].fields[1]]
         = << <<"https", Shop, "item", "5">>, <<"https", Shop, "y">> >>

\* The product page has been extracted: its tile's first anchor does not
\* resolve and the row carries the page URL.
C16_WitnessUnresolved ==
    /\ pc = "discover"
    /\ body = ItemPage
    /\ [i \in 1..Len(RowsSince) |-> RowsSince[i].fields[1]]
         = << <<"https", Shop, "item", "5">> >>
\* ---- C17
RECURSIVE ExpectedFields(_)
\* The fields of the rows of the pages fetched, page after page in the order
\* of the fetches, one row per tile with a name and a price, in document
\* order.
ExpectedFields(strs) ==
    IF strs = <<>> THEN <<>>
    ELSE LET ps == Products(Web(site, Head(strs)), UrlParse(Head(strs)).v)
         IN  [i \in 1..Len(ps) |-> <<ps[i].url, ps[i].name, ps[i].price>>]
             \o ExpectedFields(Tail(strs))

\* C17: at the end of a run without sink error the data rows of the file, the
\* rows after its header row, are the rows of the fetched pages' tiles: as
\* many as the tiles with a name and a price, summed over the pages fetched,
\* in the order of the fetches and of the document.
C17_OneRowPerAppearance ==
    status = "ok" =>
        [i \in 1..(Len(rows) - 1) |-> rows[i + 1].fields] = ExpectedFields(okLog)
\* ---- C18
\* The place of a string in the sequence of the GETs issued.
FetchPos(str) == CHOOSE k \in 1..Len(fetchLog) : fetchLog[k] = str

\* C18: a URL whose fetch failed stays in visited, so it takes one of the
\* max_pages places (the fetches answered, failed ones included, never exceed
\* max_pages) and is counted in the total printed at the end, the size of
\* visited, which is the number of the pages fetched plus the number of the
\* failed fetches; its GET is issued once in the run and never again.
C18_FailedStaysVisited ==
    /\ Range(failLog) \subseteq visited
    /\ \A i \in 1..Len(failLog) :
          Cardinality({k \in 1..Len(fetchLog) : fetchLog[k] = failLog[i]}) = 1
    /\ Len(okLog) + Len(failLog) <= max_pages
    /\ Cardinality(visited) <= max_pages
    /\ total # -1 =>
          /\ total = Cardinality(visited)
          /\ total = Len(okLog) + Len(failLog)

\* A run has ended in which a fetch failed and a page fetched after it links
\* to the failed URL; the failed URL is counted in the total.
C18_Witness ==
    /\ status = "ok"
    /\ total = Len(okLog) + Len(failLog)
    /\ \E i \in 1..Len(failLog), j \in 1..Len(okLog) :
          /\ failLog[i] \in LinkedFrom(okLog[j])
          /\ FetchPos(okLog[j]) > FetchPos(failLog[i])
\* ---- C19
\* The URLs taken from the queue so far: all that were pushed, the start URL
\* after the header row and the links discovered, and are not queued any more.
Dequeues == (IF rows = <<>> THEN 0 ELSE 1) + Len(enqLog) - Len(queue)

\* Between iterations, and before and after the loop, the GETs issued are
\* the members of visited, one GET each; only between the insert and the GET
\* is visited one ahead.
FetchesMatchVisited ==
    /\ pc # "send" =>
          /\ Len(fetchLog) = Cardinality(visited)
          /\ Range(fetchLog) = visited
          /\ Dequeues >= Len(fetchLog)
    /\ pc = "send" =>
          /\ Cardinality(visited) = Len(fetchLog) + 1
          /\ visited = Range(fetchLog) \cup {AsStr(url)}

\* An insert into visited is of the URL popped and the next step issues the
\* GET for that URL; a step of the loop head that does not go on to the GET
\* (a skip or the break at the cap) leaves visited and the GETs as they are.
InsertThenFetch ==
    /\ visited' # visited =>
          /\ pc = "loop" /\ pc' = "send"
          /\ queue # <<>>
          /\ AsStr(Head(queue)) \notin visited
          /\ visited' = visited \cup {AsStr(Head(queue))}
          /\ url' = Head(queue)
    /\ pc = "send" =>
          /\ fetchLog' = Append(fetchLog, AsStr(url))
          /\ visited' = visited
    /\ fetchLog' # fetchLog => pc = "send"
    /\ (pc = "loop" /\ pc' # "send") =>
          /\ visited' = visited
          /\ fetchLog' = fetchLog

\* C19: at every boundary between iterations the number of GETs issued is
\* the size of visited; every insert into visited is followed by one GET of
\* the URL inserted; a skipped or discarded URL adds no GET and no member.
C19_FetchesEqualVisited == [](FetchesMatchVisited) /\ [][InsertThenFetch]_vars

\* The loop ended at the cap with the URL popped last discarded, never
\* fetched, after at least one visited URL had been popped again and skipped.
C19_Witness ==
    /\ pc = "flush"
    /\ AsStr(url) \notin visited
    /\ Len(fetchLog) = max_pages
    /\ Dequeues - Len(fetchLog) - 1 >= 1
\* ---- C20
\* The links of a fetched page that resolve and whose domain is the start
\* URL's domain, as strings.
InDomainLinks(str) ==
    LET ls == DocLinks(Web(site, str), UrlParse(str).v)
    IN  {AsStr(ls[k]) : k \in {n \in 1..Len(ls) :
                                 Domain(ls[n]) = Domain(UrlParse(StartStr).v)}}

\* The loop has ended with fewer than max_pages URLs visited, which only an
\* empty queue brings about.
EndedBelowCap ==
    /\ pc = "flush" \/ status = "ok"
    /\ Cardinality(visited) < max_pages

\* C20: when the loop ends because the queue is empty, with fewer than
\* max_pages URLs visited, the start URL is in visited and so is every link
\* of every fetched page that resolves and whose domain is the start URL's
\* domain: every such URL had its GET issued.
C20_CrawlComplete ==
    EndedBelowCap =>
        /\ queue = <<>>
        /\ StartStr \in visited
        /\ \A j \in 1..Len(okLog) : InDomainLinks(okLog[j]) \subseteq visited
        /\ \A j \in 1..Len(okLog) : InDomainLinks(okLog[j]) \subseteq Range(fetchLog)

\* A run ended below the cap after at least two pages were fetched, one of
\* them with a link in the start domain other than itself and one with a
\* resolvable link outside the start domain that was never visited.
C20_Witness ==
    /\ status = "ok"
    /\ Cardinality(visited) < max_pages
    /\ Len(okLog) >= 2
    /\ \E j \in 1..Len(okLog) : InDomainLinks(okLog[j]) \ {okLog[j]} # {}
    /\ \E j \in 1..Len(okLog) :
          LET ls == DocLinks(Web(site, okLog[j]), UrlParse(okLog[j]).v)
          IN  \E k \in 1..Len(ls) : AsStr(ls[k]) \notin visited

====
